---- MODULE Spec2Model ----
(***************************************************************************)
(* tower-etag-cache: the ConstLru-backed cache provider.                   *)
(*                                                                         *)
(* One actor task (ConstLruProvider::run) owns a fixed-capacity LRU table  *)
(* mapping a cache key to (etag string, SystemTime).  Handles enqueue      *)
(* (request, oneshot sender) tuples on a bounded mpsc channel; the actor   *)
(* dequeues them one at a time, applies on_get_request / on_put_request    *)
(* and sends the result on the oneshot sender.                             *)
(*                                                                         *)
(* Strings and header values are sequences of byte codes, so that quoting, *)
(* letter case and non-ASCII bytes are what the comparisons really see.    *)
(***************************************************************************)
EXTENDS Integers, Sequences, FiniteSets, TLC

(***************************************************************************)
(* Bounds of the model.                                                    *)
(***************************************************************************)
\* const generic CAP of ConstLruProvider: capacity of the table
CAP == 2
\* SystemTime::now() returns one of the instants 0..MaxTime (ticks after the epoch)
MaxTime == 1
\* ticks per second: Rfc2822 formatting keeps whole seconds only
TicksPerSec == 1
\* argument req_buffer of init: capacity of the mpsc channel
ReqBuffer == 2
\* number of ConstLruProviderHandle clones that may exist at once
MaxHandles == 2
\* number of oneshot reply channels that may exist at once
MaxSlots == 3
\* bytes of digest the stand-in for blake3 produces
OutLen == 3
\* number of calls the handles make in a run
MaxCalls == 3

Keys == {"A", "B", "C"}
Times == 0..MaxTime
\* the instants SystemTime::now() returns to the actor
ActorTimes == {0, MaxTime}

Body1 == <<120>>
Body2 == <<121>>
Bodies == {Body1, Body2}

(***************************************************************************)
(* base64_blake3_body_etag                                                 *)
(***************************************************************************)
RECURSIVE Absorb(_, _)
Absorb(h, bs) ==
    IF bs = <<>> THEN h ELSE Absorb((h * 31 + Head(bs) + 7) % 256, Tail(bs))

\* blake3::Hasher::new / update / finalize: a deterministic digest of the
\* body bytes (the compression function itself is outside the repository)
Blake3(bs) == [i \in 1..OutLen |-> (Absorb(99, bs) * (2 * i + 1) + 17 * i) % 256]

\* the standard base64 alphabet
B64Char(i) ==
    IF i < 26 THEN 65 + i
    ELSE IF i < 52 THEN 97 + (i - 26)
    ELSE IF i < 62 THEN 48 + (i - 52)
    ELSE IF i = 62 THEN 43 ELSE 47

RECURSIVE Base64Encode(_)
\* data_encoding::BASE64.encode: 3 bytes to 4 characters, '=' padding
Base64Encode(bs) ==
    IF Len(bs) = 0 THEN <<>>
    ELSE IF Len(bs) = 1 THEN
        <<B64Char(bs[1] \div 4), B64Char((bs[1] % 4) * 16), 61, 61>>
    ELSE IF Len(bs) = 2 THEN
        <<B64Char(bs[1] \div 4),
          B64Char((bs[1] % 4) * 16 + bs[2] \div 16),
          B64Char((bs[2] % 16) * 4), 61>>
    ELSE
        <<B64Char(bs[1] \div 4),
          B64Char((bs[1] % 4) * 16 + bs[2] \div 16),
          B64Char((bs[2] % 16) * 4 + bs[3] \div 64),
          B64Char(bs[3] % 64)>> \o Base64Encode(SubSeq(bs, 4, Len(bs)))

\* the etag of every body of the model, computed once:
\* format!(r#""{val}""#) is the base64 digest between double quotes
EtagTable == [b \in Bodies |-> <<34>> \o Base64Encode(Blake3(b)) \o <<34>>]

base64_blake3_body_etag(body) == EtagTable[body]

(***************************************************************************)
(* Header values                                                           *)
(***************************************************************************)
\* HeaderValue::to_str succeeds only on visible ASCII (and tab)
to_str_ok(v) == \A i \in 1..Len(v) : v[i] = 9 \/ (v[i] >= 32 /\ v[i] <= 126)

\* HeaderValue::from_static("max-age=604800,stale-while-revalidate=86400")
CacheControlValue ==
    <<109, 97, 120, 45, 97, 103, 101, 61, 54, 48, 52, 56, 48, 48, 44, 115,
      116, 97, 108, 101, 45, 119, 104, 105, 108, 101, 45, 114, 101, 118, 97,
      108, 105, 100, 97, 116, 101, 61, 56, 54, 52, 48, 48>>

TwoDigits(n) == <<48 + (n \div 10), 48 + (n % 10)>>

\* OffsetDateTime::from(t).format(&Rfc2822) for an instant of the first day
\* after the epoch: "Thu, 01 Jan 1970 HH:MM:SS +0000"; sub-second ticks are
\* dropped
FormatRfc2822(t) ==
    LET secs == t \div TicksPerSec
    IN  <<84, 104, 117, 44, 32, 48, 49, 32, 74, 97, 110, 32, 49, 57, 55, 48, 32>>
        \o TwoDigits(secs \div 3600) \o <<58>>
        \o TwoDigits((secs \div 60) % 60) \o <<58>>
        \o TwoDigits(secs % 60)
        \o <<32, 43, 48, 48, 48, 48>>

\* HeaderMap::append: the new value is added after the values already there
HeaderAppend(headers, name, value) ==
    Append(headers, [name |-> name, value |-> value])

\* HeaderMap::get_all: the values of a header name, in order
RECURSIVE HeaderGetAll(_, _)
HeaderGetAll(headers, name) ==
    IF headers = <<>> THEN <<>>
    ELSE IF Head(headers).name = name
         THEN <<Head(headers).value>> \o HeaderGetAll(Tail(headers), name)
         ELSE HeaderGetAll(Tail(headers), name)

\* SimpleEtagCacheKey::set_response_headers: the key deriver adds the
\* response-variance header it needs
VaryValue == <<42>>
SimpleEtagCacheKey_set_response_headers(headers) ==
    HeaderAppend(headers, "vary", VaryValue)

\* calc_simple_etag_cache_key: a deterministic function of the request that
\* does not read the conditional-validator header
calc_simple_etag_cache_key(req) == req.uri

set_response_headers(headers_mut, etag_val, last_modified_val) ==
    SimpleEtagCacheKey_set_response_headers(
        HeaderAppend(
            HeaderAppend(
                HeaderAppend(headers_mut, "etag", etag_val),
                "cache-control", CacheControlValue),
            "last-modified", FormatRfc2822(last_modified_val)))

(***************************************************************************)
(* The table: ConstLru<key, (String, SystemTime), CAP>, as the sequence of *)
(* its entries from most recently used to least recently used.             *)
(***************************************************************************)
IndexOf(lru, k) ==
    IF \E i \in 1..Len(lru) : lru[i].key = k
    THEN CHOOSE i \in 1..Len(lru) : lru[i].key = k
    ELSE 0

Contains(lru, k) == IndexOf(lru, k) # 0

KeysOf(lru) == {lru[i].key : i \in 1..Len(lru)}

EntryOf(lru, k) == lru[IndexOf(lru, k)]

Without(lru, i) == SubSeq(lru, 1, i - 1) \o SubSeq(lru, i + 1, Len(lru))

\* the entry at index i becomes the most recently used one
MoveToHead(lru, i) == <<lru[i]>> \o Without(lru, i)

\* variant of ConstLruGet that leaves the recency order alone (get_untouched)
ConstLruGetUntouched(lru, k) == lru

\* variant of ConstLruGet in which a lookup of an absent key makes the least
\* recently used entry the most recently used one
ConstLruGetTouchOnMiss(lru, k) ==
    IF Contains(lru, k) THEN MoveToHead(lru, IndexOf(lru, k))
    ELSE IF lru = <<>> THEN lru ELSE MoveToHead(lru, Len(lru))

\* ConstLru::get: a present key becomes most recently used; an absent key
\* changes nothing
ConstLruGet(lru, k) ==
    IF Contains(lru, k) THEN MoveToHead(lru, IndexOf(lru, k)) ELSE lru

\* variant of ConstLruEntryOrInsert that inserts without evicting
ConstLruEntryOrInsertNoEvict(lru, k, default) ==
    IF Contains(lru, k) THEN MoveToHead(lru, IndexOf(lru, k))
    ELSE <<[key |-> k, etag |-> default[1], last_modified |-> default[2]]>> \o lru

\* variant of ConstLruEntryOrInsert that evicts the most recently used entry
ConstLruEntryOrInsertEvictNewest(lru, k, default) ==
    IF Contains(lru, k) THEN MoveToHead(lru, IndexOf(lru, k))
    ELSE IF Len(lru) >= CAP
         THEN <<[key |-> k, etag |-> default[1], last_modified |-> default[2]]>>
              \o Tail(lru)
         ELSE <<[key |-> k, etag |-> default[1], last_modified |-> default[2]]>>
              \o lru

\* variant of ConstLruEntryOrInsert that makes room in a full table before
\* it looks the key up
ConstLruEntryOrInsertEvictFirst(lru, k, default) ==
    LET room == IF Len(lru) >= CAP THEN SubSeq(lru, 1, CAP - 1) ELSE lru
    IN  IF Contains(room, k) THEN MoveToHead(room, IndexOf(room, k))
        ELSE <<[key |-> k, etag |-> default[1], last_modified |-> default[2]]>>
             \o room

\* variant of ConstLruEntryOrInsert in which the key inserted into a full
\* table takes over the value of the entry it evicts
ConstLruEntryOrInsertReuseValue(lru, k, default) ==
    IF Contains(lru, k) THEN MoveToHead(lru, IndexOf(lru, k))
    ELSE IF Len(lru) >= CAP
         THEN <<[lru[Len(lru)] EXCEPT !.key = k]>> \o SubSeq(lru, 1, CAP - 1)
         ELSE <<[key |-> k, etag |-> default[1], last_modified |-> default[2]]>>
              \o lru

\* ConstLru::entry(key).or_insert_with(default): a present key becomes most
\* recently used; an absent key is inserted as most recently used, after
\* the least recently used entry is evicted when the table is full
ConstLruEntryOrInsert(lru, k, default) ==
    IF Contains(lru, k) THEN MoveToHead(lru, IndexOf(lru, k))
    ELSE IF Len(lru) >= CAP
         THEN <<[key |-> k, etag |-> default[1], last_modified |-> default[2]]>>
              \o SubSeq(lru, 1, CAP - 1)
         ELSE <<[key |-> k, etag |-> default[1], last_modified |-> default[2]]>>
              \o lru

(***************************************************************************)
(* Requests, responses and results                                         *)
(***************************************************************************)
Miss(key) == [tag |-> "Miss", key |-> key]
Hit(header_map) == [tag |-> "Hit", headers |-> header_map]
Ok(v) == [ok |-> TRUE, val |-> v]
\* ConstLruProviderError::ReadResBody(e)
ReadResBody(e) == [ok |-> FALSE, err |-> [kind |-> "ReadResBody", source |-> e]]

\* the value with every upper-case letter made lower-case
ToLower(v) == [i \in 1..Len(v) |-> IF v[i] >= 65 /\ v[i] <= 90 THEN v[i] + 32 ELSE v[i]]

\* variant of FirstMatch that reads the first If-None-Match value only
FirstMatchHeadOnly(values, cache_etag) ==
    IF values = <<>> THEN <<>>
    ELSE IF to_str_ok(Head(values)) /\ Head(values) = cache_etag
         THEN <<Head(values)>>
         ELSE <<>>

RECURSIVE FirstMatchIgnoreCase(_, _)
\* variant of FirstMatch that compares without regard to letter case
FirstMatchIgnoreCase(values, cache_etag) ==
    IF values = <<>> THEN <<>>
    ELSE IF to_str_ok(Head(values)) /\ ToLower(Head(values)) = ToLower(cache_etag)
         THEN <<Head(values)>>
         ELSE FirstMatchIgnoreCase(Tail(values), cache_etag)

\* the first value of the If-None-Match values that is valid ASCII and
\* equal to the cached etag; <<>> when there is none (lines 145-158)
RECURSIVE FirstMatch(_, _)
FirstMatch(values, cache_etag) ==
    IF values = <<>> THEN <<>>
    ELSE IF to_str_ok(Head(values)) /\ Head(values) = cache_etag
         THEN <<Head(values)>>
         ELSE FirstMatch(Tail(values), cache_etag)

\* on_get_request: the table after the call and the CacheGetResponse
on_get_request(lru, req) ==
    LET key == calc_simple_etag_cache_key(req)
        after == ConstLruGet(lru, key)
    IN  IF ~Contains(lru, key)
        THEN [lru |-> after, res |-> Ok([req |-> req, result |-> Miss(key)])]
        ELSE LET e == EntryOf(lru, key)
                 m == FirstMatch(HeaderGetAll(req.headers, "if-none-match"), e.etag)
             IN  IF m # <<>>
                 THEN [lru |-> after,
                       res |-> Ok([req |-> req,
                                   result |-> Hit(set_response_headers(
                                       <<>>, m[1], e.last_modified))])]
                 ELSE [lru |-> after,
                       res |-> Ok([req |-> req, result |-> Miss(key)])]

\* BodyExt::collect(body).await: the bytes of the body, or its error
Collect(body) == IF body.fails THEN ReadResBody(body.error) ELSE Ok(body.bytes)

\* variant of on_put_request that stamps the entry on every Put
on_put_request_always_stamp(lru, key, resp, now) ==
    LET collected == Collect(resp.body)
    IN  IF ~collected.ok THEN [lru |-> lru, res |-> collected]
        ELSE
        LET body_bytes == collected.val
            etag == base64_blake3_body_etag(body_bytes)
            inserted == ConstLruEntryOrInsert(lru, key, <<etag, now>>)
            curr_val == inserted[1]
            updated ==
                [curr_val EXCEPT !.etag = etag, !.last_modified = now]
        IN  [lru |-> <<updated>> \o Tail(inserted),
             res |-> Ok([status |-> resp.status,
                         headers |-> set_response_headers(
                             resp.headers, etag, updated.last_modified),
                         body |-> body_bytes])]

\* variant of on_put_request that replaces the etag and keeps the old stamp
on_put_request_keep_stamp(lru, key, resp, now) ==
    LET collected == Collect(resp.body)
    IN  IF ~collected.ok THEN [lru |-> lru, res |-> collected]
        ELSE
        LET body_bytes == collected.val
            etag == base64_blake3_body_etag(body_bytes)
            inserted == ConstLruEntryOrInsert(lru, key, <<etag, now>>)
            curr_val == inserted[1]
            updated ==
                IF curr_val.etag # etag
                THEN [curr_val EXCEPT !.etag = etag]
                ELSE curr_val
        IN  [lru |-> <<updated>> \o Tail(inserted),
             res |-> Ok([status |-> resp.status,
                         headers |-> set_response_headers(
                             resp.headers, etag, updated.last_modified),
                         body |-> body_bytes])]

\* variant of on_put_request that looks the key up before the body is collected
on_put_request_touch_on_error(lru, key, resp, now) ==
    LET collected == Collect(resp.body)
    IN  IF ~collected.ok THEN [lru |-> ConstLruGet(lru, key), res |-> collected]
        ELSE
        LET body_bytes == collected.val
            etag == base64_blake3_body_etag(body_bytes)
            inserted == ConstLruEntryOrInsert(lru, key, <<etag, now>>)
            curr_val == inserted[1]
            updated ==
                IF curr_val.etag # etag
                THEN [curr_val EXCEPT !.etag = etag, !.last_modified = now]
                ELSE curr_val
        IN  [lru |-> <<updated>> \o Tail(inserted),
             res |-> Ok([status |-> resp.status,
                         headers |-> set_response_headers(
                             resp.headers, etag, updated.last_modified),
                         body |-> body_bytes])]

\* on_put_request once the body is collected; now is what SystemTime::now()
\* returns during the call
on_put_request(lru, key, resp, now) ==
    LET collected == Collect(resp.body)
    IN  IF ~collected.ok THEN [lru |-> lru, res |-> collected]
        ELSE
        LET body_bytes == collected.val
            etag == base64_blake3_body_etag(body_bytes)
            inserted == ConstLruEntryOrInsert(lru, key, <<etag, now>>)
            curr_val == inserted[1]
            updated ==
                IF curr_val.etag # etag
                THEN [curr_val EXCEPT !.etag = etag, !.last_modified = now]
                ELSE curr_val
        IN  [lru |-> <<updated>> \o Tail(inserted),
             res |-> Ok([status |-> resp.status,
                         headers |-> set_response_headers(
                             resp.headers, etag, updated.last_modified),
                         body |-> body_bytes])]

(***************************************************************************)
(* Inputs                                                                  *)
(***************************************************************************)
Etag1 == base64_blake3_body_etag(Body1)
Etag2 == base64_blake3_body_etag(Body2)

\* the value without its surrounding quotes
Unquote(v) == SubSeq(v, 2, Len(v) - 1)

\* the value with the case of every letter swapped
SwapCase(v) ==
    [i \in 1..Len(v) |->
        IF v[i] >= 65 /\ v[i] <= 90 THEN v[i] + 32
        ELSE IF v[i] >= 97 /\ v[i] <= 122 THEN v[i] - 32
        ELSE v[i]]

\* a header value that is not valid ASCII
OpaqueValue == <<200>>

IfNoneMatchLists ==
    { <<>>,
      <<Etag1>>,
      <<Unquote(Etag1), SwapCase(Etag1), OpaqueValue, Etag1 \o <<44, 32>> \o Etag2>>,
      <<OpaqueValue, SwapCase(Etag1), Etag2>> }

RECURSIVE AsHeaders(_, _)
AsHeaders(name, values) ==
    IF values = <<>> THEN <<>>
    ELSE <<[name |-> name, value |-> Head(values)]>> \o AsHeaders(name, Tail(values))

GetRequests ==
    {[uri |-> k, headers |-> AsHeaders("if-none-match", l)] :
        k \in Keys, l \in IfNoneMatchLists}

ResBodies ==
    {[bytes |-> b, fails |-> FALSE, error |-> "none"] : b \in Bodies}
    \cup {[bytes |-> Body1, fails |-> TRUE, error |-> "io"]}

\* headers the response given to Put already carries
ResHeaders == {<<>>, <<[name |-> "etag", value |-> SwapCase(Etag1)]>>}

PutResponses ==
    {[status |-> 200, headers |-> h, body |-> b] : h \in ResHeaders, b \in ResBodies}

(***************************************************************************)
(* State                                                                   *)
(***************************************************************************)
VARIABLES
    const_lru,   \* ConstLruProvider.const_lru: the table, most recently used first
    req_rx,      \* the mpsc channel: the buffered ReqTup, oldest first
    pc,          \* where run() is: "recv", "collect" (awaiting the body) or "exited"
    cur,         \* <<ReqTup>> whose body run() is collecting, else <<>>
    slots,       \* the oneshot channels, by id
    handles,     \* number of live ConstLruProviderHandle clones
    calls,       \* number of calls made through the handles so far
    ref,         \* history: the sequential reference run over the arrival order
    last,        \* history: the last handler call made directly on the table
    hist,        \* history of the calls made directly on the table
    memo         \* history: what the Puts made of one key, and what became of it

vars == <<const_lru, req_rx, pc, cur, slots, handles, calls, ref, last, hist,
          memo>>

SlotIds == 1..MaxSlots

FreeSlot == [state |-> "free", val |-> <<>>]

NoCall == [op |-> "none"]

Init ==
    /\ const_lru = <<>>
    /\ req_rx = <<>>
    /\ pc = "recv"
    /\ cur = <<>>
    /\ slots = [s \in SlotIds |-> FreeSlot]
    /\ handles = 1
    /\ calls = 0
    /\ ref = [queue |-> <<>>, lru |-> <<>>,
              replies |-> [s \in SlotIds |-> <<>>],
              overflowed |-> FALSE]
    /\ last = NoCall
    /\ hist = [fresh |-> TRUE, no_gets |-> TRUE, put_keys |-> <<>>, accessed |-> <<>>]
    /\ memo = [state |-> "never"]

(***************************************************************************)
(* History of the direct calls                                             *)
(***************************************************************************)
RECURSIVE Keep(_, _)
\* the keys of seq that are in set, in the order of seq
Keep(seq, set) ==
    IF seq = <<>> THEN <<>>
    ELSE IF Head(seq) \in set THEN <<Head(seq)>> \o Keep(Tail(seq), set)
         ELSE Keep(Tail(seq), set)

\* fresh, put_keys: the keys inserted since construction, oldest first, as
\*     long as every successful Put was of a key not put before
\* no_gets: while fresh, no Get has been applied since construction
\* accessed: the keys present, by their last access, latest first: an access
\*     is a Get that finds the key or a successful Put of the key
HistAfterGet(h, key, pre, post) ==
    [h EXCEPT !.no_gets = FALSE,
              !.accessed =
                  IF key \in KeysOf(pre)
                  THEN Keep(<<key>> \o Keep(h.accessed, KeysOf(pre) \ {key}), KeysOf(post))
                  ELSE Keep(h.accessed, KeysOf(post))]

IsNewKey(h, key) == h.fresh /\ \A i \in 1..Len(h.put_keys) : h.put_keys[i] # key

HistAfterPut(h, key, ok, pre, post) ==
    IF ~ok THEN [h EXCEPT !.accessed = Keep(@, KeysOf(post))]
    ELSE
    [fresh |-> IsNewKey(h, key),
     no_gets |-> h.no_gets /\ IsNewKey(h, key),
     put_keys |-> IF IsNewKey(h, key) THEN Append(h.put_keys, key) ELSE <<>>,
     accessed |-> Keep(<<key>> \o Keep(h.accessed, Keys \ {key}), KeysOf(post))]

(***************************************************************************)
(* The handlers applied directly to the table, one call after the other    *)
(***************************************************************************)
\* a caller submits a Get and the handler runs
TableGet ==
    \E req \in GetRequests :
        LET r == on_get_request(const_lru, req)
            key == calc_simple_etag_cache_key(req)
        IN  /\ last = NoCall
            /\ const_lru' = r.lru
            /\ last' = [op |-> "get", key |-> key, req |-> req,
                        pre |-> const_lru, hist |-> hist, res |-> r.res]
            /\ hist' = HistAfterGet(hist, key, const_lru, r.lru)
            /\ UNCHANGED <<req_rx, pc, cur, slots, handles, calls, ref, memo>>

\* a caller submits a Put and the handler runs
TablePut ==
    \E key \in Keys, resp \in PutResponses, now \in Times :
        LET r == on_put_request(const_lru, key, resp, now)
        IN  /\ last = NoCall
            /\ const_lru' = r.lru
            /\ last' = [op |-> "put", key |-> key, resp |-> resp, now |-> now,
                        pre |-> const_lru, hist |-> hist, res |-> r.res]
            /\ hist' = HistAfterPut(hist, key, r.res.ok, const_lru, r.lru)
            /\ UNCHANGED <<req_rx, pc, cur, slots, handles, calls, ref, memo>>

\* the caller takes the result
TableReturn ==
    /\ last # NoCall
    /\ last' = NoCall
    /\ UNCHANGED <<const_lru, req_rx, pc, cur, slots, handles, calls, ref, hist, memo>>

TableNext == TableGet \/ TablePut \/ TableReturn

TableSpec == Init /\ [][TableNext]_vars

(***************************************************************************)
(* The handlers applied directly to the table, with the history of one key *)
(***************************************************************************)
\* the key whose history is kept; the handlers treat every key alike
Tracked == "A"

\* memo.state is
\*   "never": the key has had no entry yet
\*   "live":  the key has an entry; etags and last_modifieds are the values
\*            of those headers in the response of the Put that created the
\*            entry or last changed its etag
\*   "gone":  the entry of the key was evicted; etag and last_modified are
\*            what it held then
MemoAfterPut(m, key, pre, r) ==
    IF ~r.res.ok THEN m
    ELSE IF key = Tracked
    THEN IF Contains(pre, key) /\ EntryOf(pre, key) = EntryOf(r.lru, key)
         THEN m
         ELSE [state |-> "live",
               etags |-> HeaderGetAll(r.res.val.headers, "etag"),
               last_modifieds |-> HeaderGetAll(r.res.val.headers, "last-modified")]
    ELSE IF Contains(pre, Tracked) /\ ~Contains(r.lru, Tracked)
         THEN [state |-> "gone",
               etag |-> EntryOf(pre, Tracked).etag,
               last_modified |-> EntryOf(pre, Tracked).last_modified]
         ELSE m

\* a caller submits a Get and the handler runs
MemoGet ==
    \E req \in GetRequests :
        LET r == on_get_request(const_lru, req)
            key == calc_simple_etag_cache_key(req)
        IN  /\ last = NoCall
            /\ const_lru' = r.lru
            /\ last' = [op |-> "get", key |-> key, req |-> req,
                        pre |-> const_lru, memo |-> memo, res |-> r.res]
            /\ UNCHANGED <<req_rx, pc, cur, slots, handles, calls, ref, hist, memo>>

\* a caller submits a Put and the handler runs
MemoPut ==
    \E key \in Keys, resp \in PutResponses, now \in ActorTimes :
        LET r == on_put_request(const_lru, key, resp, now)
        IN  /\ last = NoCall
            /\ const_lru' = r.lru
            /\ last' = [op |-> "put", key |-> key, resp |-> resp, now |-> now,
                        pre |-> const_lru, memo |-> memo, res |-> r.res]
            /\ memo' = MemoAfterPut(memo, key, const_lru, r)
            /\ UNCHANGED <<req_rx, pc, cur, slots, handles, calls, ref, hist>>

MemoNext == MemoGet \/ MemoPut \/ TableReturn

MemoSpec == Init /\ [][MemoNext]_vars

(***************************************************************************)
(* The actor, its channel and its callers                                  *)
(***************************************************************************)
\* what the callers of the actor submit: a Get of one key, carrying the etag
\* of the body that is put
ActorGetRequests ==
    {[uri |-> "A", headers |-> AsHeaders("if-none-match", <<Etag1>>)]}

ActorPutResponses ==
    {[status |-> 200, headers |-> <<>>, body |-> b] :
        b \in {x \in ResBodies : x.bytes = Body1}}

GetReq(req) == [type |-> "Get", req |-> req]
PutReq(key, resp) == [type |-> "Put", key |-> key, resp |-> resp]

\* every key is put with a body that can be collected, one key also with a
\* body that fails
ActorPuts ==
    {PutReq(k, r) : k \in Keys, r \in {x \in ActorPutResponses : ~x.body.fails}}
    \cup {PutReq("A", r) : r \in {x \in ActorPutResponses : x.body.fails}}

\* the free oneshot channel with the least id
NewSlot == CHOOSE s \in SlotIds :
               /\ slots[s].state = "free"
               /\ \A t \in SlotIds : slots[t].state = "free" => s <= t

\* the mpsc receiver is gone: run() has returned, or the runtime has dropped
\* the spawned run()
Closed == pc \in {"exited", "dropped"}

\* variant of channel_capacity with room for one more ReqTup
channel_capacity_plus_one(req_buffer) == req_buffer + 1

\* mpsc::channel(req_buffer): the number of ReqTups the channel buffers
channel_capacity(req_buffer) == req_buffer

\* ConstLruProviderHandle: a ReqTup with a new oneshot channel is sent on the
\* mpsc channel, which holds at most req_buffer of them
Enqueue(r) ==
    /\ calls < MaxCalls
    /\ handles > 0
    /\ ~Closed
    /\ Len(req_rx) < channel_capacity(ReqBuffer)
    /\ \E s \in SlotIds : slots[s].state = "free"
    /\ req_rx' = Append(req_rx, [req |-> r, resp_tx |-> NewSlot])
    /\ slots' = [slots EXCEPT ![NewSlot] = [state |-> "open", val |-> <<>>]]
    /\ calls' = calls + 1
    /\ ref' = [ref EXCEPT !.queue = Append(@, [req |-> r, resp_tx |-> NewSlot])]
    /\ UNCHANGED <<const_lru, pc, cur, handles, last, hist, memo>>

CallGet == \E req \in ActorGetRequests : Enqueue(GetReq(req))

CallPut == \E p \in ActorPuts : Enqueue(p)

\* Clone for ConstLruProviderHandle
HandleClone ==
    /\ handles > 0
    /\ handles < MaxHandles
    /\ handles' = handles + 1
    /\ UNCHANGED <<const_lru, req_rx, pc, cur, slots, calls, ref, last, hist, memo>>

\* a handle is dropped
HandleDrop ==
    /\ handles > 0
    /\ handles' = handles - 1
    /\ UNCHANGED <<const_lru, req_rx, pc, cur, slots, calls, ref, last, hist, memo>>

\* variant of Send that gives the value to the oneshot channel that has
\* waited longest, whichever ReqTup it came with
SendToOldest(sl, s, v) ==
    IF \E t \in DOMAIN sl : sl[t].state = "open"
    THEN LET t == CHOOSE t \in DOMAIN sl :
                      /\ sl[t].state = "open"
                      /\ \A u \in DOMAIN sl : sl[u].state = "open" => t <= u
         IN  [sl EXCEPT ![t] = [state |-> "sent", val |-> <<v>>]]
    ELSE [sl EXCEPT ![s] = FreeSlot]

\* oneshot::Sender::send: the value reaches the receiver if it still exists;
\* otherwise the send fails and the channel is gone
Send(sl, s, v) ==
    IF sl[s].state = "open"
    THEN [sl EXCEPT ![s] = [state |-> "sent", val |-> <<v>>]]
    ELSE [sl EXCEPT ![s] = FreeSlot]

\* the reference run: the oldest call not yet applied is applied to the
\* reference table, and its caller, if it still waits, is given the result
\* overflowed: a Put of an absent key has been applied to a full table
RefApply(now) ==
    LET e == Head(ref.queue)
        r == IF e.req.type = "Get"
             THEN on_get_request(ref.lru, e.req.req)
             ELSE on_put_request(ref.lru, e.req.key, e.req.resp, now)
    IN  [queue |-> Tail(ref.queue),
         lru |-> r.lru,
         replies |-> IF slots[e.resp_tx].state = "open"
                     THEN [ref.replies EXCEPT ![e.resp_tx] = <<r.res>>]
                     ELSE ref.replies,
         overflowed |-> \/ ref.overflowed
                        \/ /\ e.req.type = "Put"
                           /\ r.res.ok
                           /\ Len(ref.lru) >= CAP
                           /\ ~Contains(ref.lru, e.req.key)]

\* variant of recv that returns the newest buffered ReqTup
recv_newest(q) == [item |-> q[Len(q)], rest |-> SubSeq(q, 1, Len(q) - 1)]

\* mpsc::Receiver::recv: the oldest buffered ReqTup, and the channel without it
recv(q) == [item |-> Head(q), rest |-> Tail(q)]

\* run(): recv() returns a Get, on_get_request runs and the result is sent
RecvGet ==
    /\ pc = "recv"
    /\ req_rx # <<>>
    /\ recv(req_rx).item.req.type = "Get"
    /\ LET e == recv(req_rx).item
           r == on_get_request(const_lru, e.req.req)
       IN  /\ const_lru' = r.lru
           /\ slots' = Send(slots, e.resp_tx, r.res)
    /\ req_rx' = recv(req_rx).rest
    /\ ref' = RefApply(0)
    /\ UNCHANGED <<pc, cur, handles, calls, last, hist, memo>>

\* run(): recv() returns a Put and on_put_request suspends collecting the body
RecvPut ==
    /\ pc = "recv"
    /\ req_rx # <<>>
    /\ recv(req_rx).item.req.type = "Put"
    /\ cur' = <<recv(req_rx).item>>
    /\ req_rx' = recv(req_rx).rest
    /\ pc' = "collect"
    /\ UNCHANGED <<const_lru, slots, handles, calls, ref, last, hist, memo>>

\* variant of CollectDone in which a body that fails ends run(): the error is
\* sent and the loop is left with ReqTups still buffered
CollectDoneEndsOnError ==
    /\ pc = "collect"
    /\ \E now \in ActorTimes :
          LET e == cur[1]
              r == on_put_request(const_lru, e.req.key, e.req.resp, now)
          IN  /\ const_lru' = r.lru
              /\ slots' = Send(slots, e.resp_tx, r.res)
              /\ ref' = RefApply(now)
              /\ pc' = IF r.res.ok THEN "recv" ELSE "exited"
    /\ cur' = <<>>
    /\ UNCHANGED <<req_rx, handles, calls, last, hist, memo>>

\* variant of CollectDone that gives up the Put when nobody waits for its
\* result any more
CollectDoneUnlessClosed ==
    /\ pc = "collect"
    /\ \E now \in ActorTimes :
          LET e == cur[1]
              r == on_put_request(const_lru, e.req.key, e.req.resp, now)
          IN  /\ const_lru' = IF slots[e.resp_tx].state = "rx_dropped"
                              THEN const_lru ELSE r.lru
              /\ slots' = Send(slots, e.resp_tx, r.res)
              /\ ref' = RefApply(now)
    /\ cur' = <<>>
    /\ pc' = "recv"
    /\ UNCHANGED <<req_rx, handles, calls, last, hist, memo>>

\* the body has been collected, or has failed: on_put_request resumes and
\* the result is sent
CollectDone ==
    /\ pc = "collect"
    /\ \E now \in ActorTimes :
          LET e == cur[1]
              r == on_put_request(const_lru, e.req.key, e.req.resp, now)
          IN  /\ const_lru' = r.lru
              /\ slots' = Send(slots, e.resp_tx, r.res)
              /\ ref' = RefApply(now)
    /\ cur' = <<>>
    /\ pc' = "recv"
    /\ UNCHANGED <<req_rx, handles, calls, last, hist, memo>>

\* variant of Exit in which the loop ends as soon as every handle is dropped,
\* with ReqTups still buffered
ExitWhenClosed ==
    /\ pc = "recv"
    /\ handles = 0
    /\ pc' = "exited"
    /\ UNCHANGED <<const_lru, req_rx, cur, slots, handles, calls, ref, last, hist, memo>>

\* run(): recv() returns None once every handle is dropped and the channel
\* is empty
Exit ==
    /\ pc = "recv"
    /\ req_rx = <<>>
    /\ handles = 0
    /\ pc' = "exited"
    /\ UNCHANGED <<const_lru, req_rx, cur, slots, handles, calls, ref, last, hist, memo>>

\* a caller receives the result sent on its oneshot channel
ReplyRecv ==
    \E s \in SlotIds :
        /\ slots[s].state = "sent"
        /\ slots' = [slots EXCEPT ![s] = FreeSlot]
        /\ ref' = [ref EXCEPT !.replies[s] = <<>>]
        /\ UNCHANGED <<const_lru, req_rx, pc, cur, handles, calls, last, hist, memo>>

\* a caller drops its oneshot receiver before a result was sent
ReplyDrop ==
    \E s \in SlotIds :
        /\ slots[s].state = "open"
        /\ slots' = [slots EXCEPT ![s] = [state |-> "rx_dropped", val |-> <<>>]]
        /\ UNCHANGED <<const_lru, req_rx, pc, cur, handles, calls, ref, last, hist, memo>>

\* the callers of this specification share the handle init returned; how
\* many clones exist matters only to when the channel closes, which FairSpec
\* covers
Next ==
    \/ CallGet
    \/ CallPut
    \/ HandleDrop
    \/ RecvGet
    \/ RecvPut
    \/ CollectDone
    \/ Exit
    \/ ReplyRecv
    \/ ReplyDrop

Spec == Init /\ [][Next]_vars

(***************************************************************************)
(* The actor under a runtime that shuts down while a handle is still held  *)
(***************************************************************************)
\* the error a call ends with when its ReqTup cannot be delivered
DeliveryError == [ok |-> FALSE, err |-> [kind |-> "Delivery", source |-> "closed"]]

\* run() is dropped at one of its await points: the table, the receiver and
\* the buffered ReqTups go with it, and with them their oneshot senders
TaskDropped ==
    /\ pc \in {"recv", "collect"}
    /\ pc' = "dropped"
    /\ const_lru' = <<>>
    /\ req_rx' = <<>>
    /\ cur' = <<>>
    /\ slots' = [s \in SlotIds |->
                    IF slots[s].state = "open"
                    THEN [state |-> "tx_dropped", val |-> <<>>]
                    ELSE IF slots[s].state = "rx_dropped" THEN FreeSlot
                    ELSE slots[s]]
    /\ ref' = [queue |-> <<>>, lru |-> <<>>,
               replies |-> [s \in SlotIds |-> <<>>],
               overflowed |-> FALSE]
    /\ UNCHANGED <<handles, calls, last, hist, memo>>

\* variant of CallOnClosed in which the caller waits for a reply to a ReqTup
\* that was not delivered
CallOnClosedWaits ==
    /\ calls < MaxCalls
    /\ handles > 0
    /\ Closed
    /\ \E s \in SlotIds : slots[s].state = "free"
    /\ slots' = [slots EXCEPT ![NewSlot] = [state |-> "open", val |-> <<>>]]
    /\ calls' = calls + 1
    /\ UNCHANGED <<const_lru, req_rx, pc, cur, handles, ref, last, hist, memo>>

\* ConstLruProviderHandle: a get or put on a closed channel ends at once with
\* the delivery error; nothing is buffered
CallOnClosed ==
    /\ calls < MaxCalls
    /\ handles > 0
    /\ Closed
    /\ \E s \in SlotIds : slots[s].state = "free"
    /\ slots' = [slots EXCEPT ![NewSlot] =
                    [state |-> "failed", val |-> <<DeliveryError>>]]
    /\ calls' = calls + 1
    /\ UNCHANGED <<const_lru, req_rx, pc, cur, handles, ref, last, hist, memo>>

\* a caller is told that its call did not reach the actor, or that its
\* ReqTup was dropped unanswered
ErrRecv ==
    \E s \in SlotIds :
        /\ slots[s].state \in {"failed", "tx_dropped"}
        /\ slots' = [slots EXCEPT ![s] = FreeSlot]
        /\ UNCHANGED <<const_lru, req_rx, pc, cur, handles, calls, ref, last, hist, memo>>

ShutdownNext ==
    \/ CallGet
    \/ CallPut
    \/ RecvGet
    \/ RecvPut
    \/ CollectDone
    \/ ReplyRecv
    \/ TaskDropped
    \/ CallOnClosed
    \/ ErrRecv

ShutdownSpec == Init /\ [][ShutdownNext]_vars

(***************************************************************************)
(* The actor under a fair runtime, with callers that put one key           *)
(***************************************************************************)
\* every call of these specifications is about key "A": what is buffered, who
\* waits and which bodies fail vary as in Spec, the table holds one entry
FairCallPut == \E p \in {x \in ActorPuts : x.key = "A"} : Enqueue(p)

\* the handles are cloned and dropped, and every caller waits for its reply
FairNext ==
    \/ CallGet
    \/ FairCallPut
    \/ HandleClone
    \/ HandleDrop
    \/ RecvGet
    \/ RecvPut
    \/ CollectDone
    \/ Exit
    \/ ReplyRecv

\* the runtime polls the spawned run() whenever it can make progress: a
\* buffered ReqTup is received, a closed and empty channel ends the loop, and
\* a body that is being collected ends or fails
FairSpec ==
    /\ Init
    /\ [][FairNext]_vars
    /\ WF_vars(RecvGet)
    /\ WF_vars(RecvPut)
    /\ WF_vars(CollectDone)
    /\ WF_vars(Exit)

\* the handle is kept, and callers may drop their oneshot receivers
FairServeNext ==
    \/ CallGet
    \/ FairCallPut
    \/ RecvGet
    \/ RecvPut
    \/ CollectDone
    \/ ReplyRecv
    \/ ReplyDrop

FairServeSpec ==
    /\ Init
    /\ [][FairServeNext]_vars
    /\ WF_vars(RecvGet)
    /\ WF_vars(RecvPut)
    /\ WF_vars(CollectDone)

(***************************************************************************)
(* Properties                                                              *)
(***************************************************************************)
HasHeader(headers, name, value) ==
    \E i \in 1..Len(headers) : headers[i].name = name /\ headers[i].value = value

IfNoneMatchOf(req) == HeaderGetAll(req.headers, "if-none-match")

\* the entry of the key of the last direct call, before and after the call
OldEntry == EntryOf(last.pre, last.key)
NewEntry == EntryOf(const_lru, last.key)

\* C1: in every reachable state of the actor, whatever Gets and Puts were
\* submitted through the handles and whether they succeeded or failed, the
\* table holds at most CAP entries.
C1_EntryCountAtMostCap == Len(const_lru) <= CAP

\* a Put of an absent key has been applied to a full table, which is still full
C1_Witness == ref.overflowed /\ Len(const_lru) = CAP

\* the last direct call was a successful Put of an absent key on a full table
PutOnFullTable ==
    /\ last.op = "put"
    /\ last.res.ok
    /\ ~Contains(last.pre, last.key)
    /\ Len(last.pre) = CAP

\* the key present before the last call whose last access is the oldest
LeastRecentlyAccessed == last.hist.accessed[Len(last.hist.accessed)]

\* the key inserted first, while the insertions are on record
LeastRecentlyInserted == last.hist.put_keys[1]

\* C2: a Put of an absent key applied to a table of CAP entries evicts exactly
\* one entry, that of the least recently accessed key among those present,
\* where an access is a Get that finds the key (Hit or Miss) or a successful
\* Put of the key.
C2_EvictsLeastRecentlyAccessed ==
    PutOnFullTable =>
        /\ LeastRecentlyAccessed \in KeysOf(last.pre)
        /\ KeysOf(const_lru) =
              (KeysOf(last.pre) \ {LeastRecentlyAccessed}) \cup {last.key}
        /\ Len(const_lru) = CAP

\* an eviction whose victim is not the least recently inserted key
C2_Witness ==
    /\ PutOnFullTable
    /\ last.hist.fresh
    /\ Len(last.hist.put_keys) = CAP
    /\ LeastRecentlyAccessed # LeastRecentlyInserted
    /\ LeastRecentlyAccessed \notin KeysOf(const_lru)
    /\ LeastRecentlyInserted \in KeysOf(const_lru)

\* C3: from the empty table, after successful Puts of CAP + 1 distinct keys
\* and no Get, the table holds exactly the CAP keys put last and not the key
\* put first; a Get of the key put first then returns Miss with that key.
C3_KeepsLastCapKeys ==
    /\ (hist.fresh /\ hist.no_gets /\ Len(hist.put_keys) = CAP + 1) =>
          /\ KeysOf(const_lru) = {hist.put_keys[i] : i \in 2..(CAP + 1)}
          /\ Len(const_lru) = CAP
          /\ hist.put_keys[1] \notin KeysOf(const_lru)
    /\ (/\ last.op = "get"
        /\ last.hist.fresh
        /\ last.hist.no_gets
        /\ Len(last.hist.put_keys) = CAP + 1
        /\ last.key = last.hist.put_keys[1]) =>
          last.res = Ok([req |-> last.req, result |-> Miss(last.hist.put_keys[1])])

\* CAP + 1 distinct keys were put and the first of them has then been looked up
C3_Witness ==
    /\ last.op = "get"
    /\ last.hist.fresh
    /\ last.hist.no_gets
    /\ Len(last.hist.put_keys) = CAP + 1
    /\ last.key = last.hist.put_keys[1]

\* the last direct call was a successful Put of a present key
PutOnPresentKey ==
    /\ last.op = "put"
    /\ last.res.ok
    /\ Contains(last.pre, last.key)

PutToken == base64_blake3_body_etag(last.resp.body.bytes)

\* C4: a Put whose body gives the token already stored for the key leaves the
\* stored token and the stored last_changed as they were, and its response
\* carries the original last_changed.
C4_SameTokenKeepsEntry ==
    (PutOnPresentKey /\ OldEntry.etag = PutToken) =>
        /\ NewEntry.etag = OldEntry.etag
        /\ NewEntry.last_modified = OldEntry.last_modified
        /\ HasHeader(last.res.val.headers, "last-modified",
                     FormatRfc2822(OldEntry.last_modified))

\* a Put of the same content at an instant whose date differs from the stored one
C4_Witness ==
    /\ PutOnPresentKey
    /\ OldEntry.etag = PutToken
    /\ FormatRfc2822(last.now) # FormatRfc2822(OldEntry.last_modified)

\* C5: a Put whose body gives a token other than the one stored for the key
\* stores the new token and the time of the Put, and its response carries
\* that token and that time.
C5_NewTokenReplacesEntry ==
    (PutOnPresentKey /\ OldEntry.etag # PutToken) =>
        /\ NewEntry.etag = PutToken
        /\ NewEntry.last_modified = last.now
        /\ HasHeader(last.res.val.headers, "etag", PutToken)
        /\ HasHeader(last.res.val.headers, "last-modified", FormatRfc2822(last.now))

\* a Put of other content at an instant whose date differs from the stored one
C5_Witness ==
    /\ PutOnPresentKey
    /\ OldEntry.etag # PutToken
    /\ FormatRfc2822(last.now) # FormatRfc2822(OldEntry.last_modified)

\* C6: a Get whose key has no entry returns Miss with the key derived from
\* the request, whatever If-None-Match values it carries, and leaves the
\* table (keys, tokens, timestamps, recency order) as it was.
C6_GetOfAbsentKey ==
    (last.op = "get" /\ ~Contains(last.pre, last.key)) =>
        /\ last.res = Ok([req |-> last.req,
                          result |-> Miss(calc_simple_etag_cache_key(last.req))])
        /\ const_lru = last.pre

\* a Get of an absent key, with If-None-Match values, on a full table
C6_Witness ==
    /\ last.op = "get"
    /\ ~Contains(last.pre, last.key)
    /\ Len(last.pre) = CAP
    /\ Len(IfNoneMatchOf(last.req)) > 1

\* the last direct call was a Get of a present key
GetOfPresentKey == last.op = "get" /\ Contains(last.pre, last.key)

\* C7: a Get of a present key, one of whose If-None-Match values is exactly
\* the stored token, returns Hit with headers that contain the stored token,
\* the fixed cache-control value and the stored timestamp as an HTTP date.
C7_MatchingGetHits ==
    (/\ GetOfPresentKey
     /\ \E i \in 1..Len(IfNoneMatchOf(last.req)) :
            IfNoneMatchOf(last.req)[i] = OldEntry.etag) =>
        /\ last.res.ok
        /\ last.res.val.result.tag = "Hit"
        /\ HasHeader(last.res.val.result.headers, "etag", OldEntry.etag)
        /\ HasHeader(last.res.val.result.headers, "cache-control", CacheControlValue)
        /\ HasHeader(last.res.val.result.headers, "last-modified",
                     FormatRfc2822(OldEntry.last_modified))

\* a Get whose matching value comes after values that do not match
C7_Witness ==
    /\ GetOfPresentKey
    /\ Len(IfNoneMatchOf(last.req)) > 1
    /\ IfNoneMatchOf(last.req)[1] # OldEntry.etag
    /\ IfNoneMatchOf(last.req)[Len(IfNoneMatchOf(last.req))] = OldEntry.etag
    /\ OldEntry.last_modified = MaxTime

\* C8: a Get of a present key, none of whose If-None-Match values equals the
\* stored token (no header at all, or values that differ from the token in
\* case or quoting), returns Miss with the key.
C8_NonMatchingGetMisses ==
    (/\ GetOfPresentKey
     /\ \A i \in 1..Len(IfNoneMatchOf(last.req)) :
            IfNoneMatchOf(last.req)[i] # OldEntry.etag) =>
        last.res = Ok([req |-> last.req, result |-> Miss(last.key)])

\* a Get that carries the stored token unquoted and with its case changed
C8_Witness ==
    /\ GetOfPresentKey
    /\ \A i \in 1..Len(IfNoneMatchOf(last.req)) :
            IfNoneMatchOf(last.req)[i] # OldEntry.etag
    /\ \E i \in 1..Len(IfNoneMatchOf(last.req)) :
            IfNoneMatchOf(last.req)[i] = SwapCase(OldEntry.etag)
    /\ \E i \in 1..Len(IfNoneMatchOf(last.req)) :
            IfNoneMatchOf(last.req)[i] = Unquote(OldEntry.etag)

\* C9: the actor applies the calls one at a time in their order of arrival:
\* the table, the calls not yet applied and every reply held by a oneshot
\* channel are those of the sequential reference run over the arrival order,
\* also while the actor is suspended collecting a body.
C9_AppliedInArrivalOrder ==
    /\ const_lru = ref.lru
    /\ cur \o req_rx = ref.queue
    /\ \A s \in SlotIds :
          IF slots[s].state = "sent"
          THEN slots[s].val = ref.replies[s]
          ELSE ref.replies[s] = <<>>

\* the actor is suspended collecting a body, after an earlier call was
\* applied, while a later call is buffered
C9_Witness ==
    /\ pc = "collect"
    /\ req_rx # <<>>
    /\ const_lru # <<>>

\* the step in which on_put_request ends
PutEnds == pc = "collect" /\ pc' # "collect"

\* C10: when the body of a Put cannot be collected, the reply is the
\* ReadResBody error, the table is not changed, the call is not retried and
\* the actor goes back to recv; an error reply is only ever given for such
\* a Put; and a waiting actor can always take the next buffered ReqTup.
C10_FailedPut ==
    /\ [][/\ (PutEnds /\ cur[1].req.resp.body.fails) =>
                /\ const_lru' = const_lru
                /\ req_rx' = req_rx
                /\ cur' = <<>>
                /\ pc' = "recv"
                /\ slots[cur[1].resp_tx].state = "open" =>
                      slots'[cur[1].resp_tx] =
                          [state |-> "sent",
                           val |-> <<ReadResBody(cur[1].req.resp.body.error)>>]
           /\ \A s \in SlotIds :
                (/\ slots[s].state # "sent"
                 /\ slots'[s].state = "sent"
                 /\ ~slots'[s].val[1].ok) =>
                    /\ PutEnds
                    /\ cur[1].resp_tx = s
                    /\ cur[1].req.resp.body.fails
                    /\ slots'[s].val[1].err.kind = "ReadResBody"
          ]_vars
    /\ [](pc = "recv" /\ req_rx # <<>> => ENABLED (RecvGet \/ RecvPut))

\* a failed Put of an absent key on a full table has been answered
C10_Witness ==
    /\ \E s \in SlotIds :
          /\ slots[s].state = "sent"
          /\ ~slots[s].val[1].ok
          /\ slots[s].val[1].err.kind = "ReadResBody"
    /\ Len(const_lru) = CAP
    /\ "A" \notin KeysOf(const_lru)
    /\ pc = "recv"

IsCall == calls' = calls + 1

\* C12: a get or put called when the channel is closed ends with the delivery
\* error, which is not the ReadResBody error: the call is not left waiting
\* (it can always be made and it ends in the same step), nothing is buffered
\* and no Hit, Miss or Put result is ever given for it.
C12_CallOnClosedFails ==
    /\ [][(IsCall /\ Closed) =>
            /\ req_rx' = <<>>
            /\ \E s \in SlotIds :
                  /\ slots[s] = FreeSlot
                  /\ slots'[s] = [state |-> "failed", val |-> <<DeliveryError>>]
                  /\ slots'[s].val[1].err.kind # ReadResBody("io").err.kind
                  /\ \A t \in SlotIds \ {s} : slots'[t] = slots[t]]_vars
    /\ [][Closed => \A s \in SlotIds :
                       /\ slots'[s].state = "sent" => slots[s].state = "sent"
                       /\ slots'[s].state # "open"]_vars
    /\ []((Closed /\ handles > 0 /\ calls < MaxCalls
                  /\ \E s \in SlotIds : slots[s].state = "free")
            => ENABLED CallOnClosed)

\* a call has failed on a channel that was closed while a ReqTup was still
\* buffered
C12_Witness ==
    /\ pc = "dropped"
    /\ \E s \in SlotIds : slots[s].state = "failed"
    /\ \E s \in SlotIds : slots[s].state = "tx_dropped"

\* the ReqTups the actor has not answered yet, the one in service first
Pending == cur \o req_rx

\* the ReqTup whose service ends in this step, and the result of applying it
\* to the table as it is before the step
Served == IF pc = "collect" THEN cur[1] ELSE Head(req_rx)
ServiceEnds ==
    \/ pc = "collect" /\ cur' = <<>>
    \/ pc = "recv" /\ req_rx # <<>> /\ Head(req_rx).req.type = "Get"
                   /\ req_rx' = Tail(req_rx)

PendingUnanswered ==
    /\ \A i, j \in 1..Len(Pending) :
          (i # j) => (Pending[i].resp_tx # Pending[j].resp_tx)
    /\ \A k \in 1..Len(Pending) :
          slots[Pending[k].resp_tx].state \in {"open", "rx_dropped"}

\* C13: no two ReqTups that wait share a oneshot channel and none of them has
\* a reply in it; a oneshot channel receives a value only in the step that
\* ends the service of the ReqTup it came with, after that ReqTup was taken
\* from the channel, the value being the result of applying it to the table
\* and the table being the one it left; and no other oneshot channel
\* receives or changes a value in that step.
C13_OneReplyPerReqTup ==
    /\ []PendingUnanswered
    /\ [][\A s \in SlotIds :
            (slots'[s].state = "sent" /\ slots'[s] # slots[s]) =>
                /\ slots[s].state = "open"
                /\ ServiceEnds
                /\ Served.resp_tx = s
                /\ \A i \in 1..Len(Pending') : Pending'[i].resp_tx # s
                /\ IF Served.req.type = "Get"
                   THEN /\ slots'[s].val =
                               <<on_get_request(const_lru, Served.req.req).res>>
                        /\ const_lru' = on_get_request(const_lru, Served.req.req).lru
                   ELSE \E now \in ActorTimes :
                          LET r == on_put_request(const_lru, Served.req.key,
                                                  Served.req.resp, now)
                          IN  slots'[s].val = <<r.res>> /\ const_lru' = r.lru
                /\ \A t \in SlotIds \ {s} : slots'[t] = slots[t]]_vars

\* a reply waits in one oneshot channel while the ReqTup of another is still
\* buffered
C13_Witness ==
    /\ \E s \in SlotIds : slots[s].state = "sent"
    /\ \E i \in 1..Len(req_rx) : slots[req_rx[i].resp_tx].state = "open"

\* C14: when the service of a ReqTup ends whose oneshot receiver has been
\* dropped (while it was buffered or while its body was collected), the table
\* becomes what the call makes of it, the send fails without any other
\* effect, the ReqTup is not taken up again, run() goes back to recv and can
\* take the next buffered ReqTup.
C14_DroppedReceiver ==
    /\ [][(ServiceEnds /\ slots[Served.resp_tx].state = "rx_dropped") =>
            /\ IF Served.req.type = "Get"
               THEN const_lru' = on_get_request(const_lru, Served.req.req).lru
               ELSE \E now \in ActorTimes :
                      const_lru' = on_put_request(const_lru, Served.req.key,
                                                  Served.req.resp, now).lru
            /\ slots' = [slots EXCEPT ![Served.resp_tx] = FreeSlot]
            /\ Pending' = Tail(Pending)
            /\ pc' = "recv"
            /\ handles' = handles]_vars
    /\ [][(\E s \in SlotIds : slots[s].state = "open" /\ slots'[s].state = "rx_dropped")
            => UNCHANGED <<const_lru, req_rx, pc, cur>>]_vars
    /\ []((pc = "recv" /\ req_rx # <<>>) => ENABLED (RecvGet \/ RecvPut))

\* the body of a Put of a new key is being collected, its oneshot receiver
\* has been dropped, and another ReqTup is buffered behind it
C14_Witness ==
    /\ pc = "collect"
    /\ slots[cur[1].resp_tx].state = "rx_dropped"
    /\ ~cur[1].req.resp.body.fails
    /\ ~Contains(const_lru, cur[1].req.key)
    /\ req_rx # <<>>

\* a caller could be given a oneshot channel and has calls left to make
CallerReady ==
    /\ handles > 0
    /\ ~Closed
    /\ calls < MaxCalls
    /\ \E s \in SlotIds : slots[s].state = "free"

\* C15: the channel made by init(req_buffer) never buffers more than
\* req_buffer ReqTups; while it is full no call goes through (the caller
\* waits: its ReqTup is neither buffered nor answered with an error); a
\* ReqTup leaves the channel only by the actor receiving the oldest one; and
\* as soon as there is room a waiting call can go through, its ReqTup being
\* added behind the buffered ones.
C15_ChannelBounded ==
    /\ [](Len(req_rx) <= ReqBuffer)
    /\ [](Len(req_rx) = ReqBuffer => ~ENABLED (CallGet \/ CallPut))
    /\ []((CallerReady /\ Len(req_rx) < ReqBuffer)
            => (ENABLED CallGet /\ ENABLED CallPut))
    /\ [][IsCall =>
            /\ Len(req_rx) < ReqBuffer
            /\ Len(req_rx') = Len(req_rx) + 1
            /\ SubSeq(req_rx', 1, Len(req_rx)) = req_rx
            /\ slots[req_rx'[Len(req_rx')].resp_tx].state = "free"
            /\ slots'[req_rx'[Len(req_rx')].resp_tx].state = "open"]_vars
    /\ [][(req_rx' # req_rx /\ ~IsCall) =>
            /\ pc = "recv"
            /\ req_rx' = Tail(req_rx)
            /\ Pending' \in {Pending, Tail(Pending)}]_vars

\* the channel is full and a caller that could otherwise call has to wait
C15_Witness ==
    /\ Len(req_rx) = ReqBuffer
    /\ CallerReady
    /\ pc = "recv"

\* the step ends the service of a Put whose body was collected
PutApplied ==
    /\ ServiceEnds
    /\ Served.req.type = "Put"
    /\ ~Served.req.resp.body.fails

\* C16: no key has two entries; a key leaves the table only in the step that
\* applies a Put of another key, absent from a table of CAP entries, and it is
\* then the least recently used key and the only one to leave (so no Get,
\* no failed Put, no Put of a present key and no dropped oneshot receiver
\* removes an entry); and the entry of a key that stays changes only by a Put
\* of that key.
C16_RemovedOnlyByEviction ==
    /\ [](\A i, j \in 1..Len(const_lru) :
             (i # j) => (const_lru[i].key # const_lru[j].key))
    /\ [][\A k \in KeysOf(const_lru) \ KeysOf(const_lru') :
            /\ PutApplied
            /\ Served.req.key # k
            /\ ~Contains(const_lru, Served.req.key)
            /\ Len(const_lru) = CAP
            /\ k = const_lru[CAP].key
            /\ KeysOf(const_lru') =
                  (KeysOf(const_lru) \ {k}) \cup {Served.req.key}]_vars
    /\ [][\A k \in KeysOf(const_lru) \cap KeysOf(const_lru') :
            (EntryOf(const_lru', k) # EntryOf(const_lru, k)) =>
                (PutApplied /\ Served.req.key = k)]_vars
    /\ [][\A k \in KeysOf(const_lru') \ KeysOf(const_lru) :
            PutApplied /\ Served.req.key = k]_vars

\* a Get of a key that is present has been answered with Hit on a table of
\* CAP entries, which still holds them all
C16_Witness ==
    /\ Len(const_lru) = CAP
    /\ const_lru[1].key = "A"
    /\ pc = "recv"
    /\ \E s \in SlotIds :
          /\ slots[s].state = "sent"
          /\ slots[s].val[1].ok
          /\ "result" \in DOMAIN slots[s].val[1].val
          /\ slots[s].val[1].val.result.tag = "Hit"

\* the last direct call was a Put whose body was collected
PutSucceeded == last.op = "put" /\ last.res.ok

\* the headers of the original response other than the three the Put sets
RECURSIVE OtherHeaders(_)
OtherHeaders(headers) ==
    IF headers = <<>> THEN <<>>
    ELSE IF Head(headers).name \in {"etag", "cache-control", "last-modified", "vary"}
         THEN OtherHeaders(Tail(headers))
         ELSE <<Head(headers)>> \o OtherHeaders(Tail(headers))

\* C17: the response of a successful Put has the quoted token of the collected
\* body as the value of its etag header, the fixed policy as the value of its
\* cache-control header and the stored timestamp as the value of its
\* last-modified header, whatever headers the original response carried; its
\* status, its other headers and its body bytes are those of the original.
C17_PutResponseHeaders ==
    PutSucceeded =>
        /\ HeaderGetAll(last.res.val.headers, "etag") = <<PutToken>>
        /\ HeaderGetAll(last.res.val.headers, "cache-control") = <<CacheControlValue>>
        /\ HeaderGetAll(last.res.val.headers, "last-modified") =
              <<FormatRfc2822(NewEntry.last_modified)>>
        /\ last.res.val.status = last.resp.status
        /\ OtherHeaders(last.res.val.headers) = OtherHeaders(last.resp.headers)
        /\ last.res.val.body = last.resp.body.bytes

\* the last direct call was a Get of the tracked key, which has its entry
GetOfLiveKey == last.op = "get" /\ last.key = Tracked /\ last.memo.state = "live"

\* C18: when a Put of a key has succeeded and its response carries the etag T
\* and the last-modified date L, a later Get of that key whose If-None-Match
\* values contain T returns Hit with the etag T and the date L, as long as
\* the key was not evicted and no Put changed its etag in between, whatever
\* Gets and Puts of the same content came in between.
C18_RoundTrip ==
    GetOfLiveKey =>
        \A i \in 1..Len(last.memo.etags) :
            (\E n \in 1..Len(IfNoneMatchOf(last.req)) :
                 IfNoneMatchOf(last.req)[n] = last.memo.etags[i]) =>
                /\ last.res.ok
                /\ last.res.val.result.tag = "Hit"
                /\ HasHeader(last.res.val.result.headers, "etag", last.memo.etags[i])
                /\ \A j \in 1..Len(last.memo.last_modifieds) :
                      HasHeader(last.res.val.result.headers, "last-modified",
                                last.memo.last_modifieds[j])

\* the last direct call was about the tracked key after its entry was evicted
OnEvictedKey == last.key = Tracked /\ last.memo.state = "gone"

\* C19: once the entry of a key has been evicted, a Get of the key returns
\* Miss with the key, also when its If-None-Match values contain the etag the
\* entry held; and the next successful Put of the key makes an entry with the
\* etag of its body and the instant of that Put, which its response carries,
\* also when the etag is the one held before the eviction.
C19_EvictionForgets ==
    /\ (last.op = "get" /\ OnEvictedKey) =>
          /\ last.res = Ok([req |-> last.req, result |-> Miss(last.key)])
          /\ const_lru = last.pre
    /\ (PutSucceeded /\ OnEvictedKey) =>
          /\ NewEntry.etag = PutToken
          /\ NewEntry.last_modified = last.now
          /\ HasHeader(last.res.val.headers, "etag", PutToken)
          /\ HasHeader(last.res.val.headers, "last-modified",
                       FormatRfc2822(last.now))
          /\ memo.state = "live"

\* the evicted key is put again with the body it had, at an instant whose
\* date differs from the one its entry held, into a table that is full
C19_Witness ==
    /\ PutSucceeded
    /\ OnEvictedKey
    /\ PutToken = last.memo.etag
    /\ FormatRfc2822(last.now) # FormatRfc2822(last.memo.last_modified)
    /\ Len(last.pre) = CAP

\* the ReqTup that came with oneshot channel s is buffered or in service
InPending(s) == \E i \in 1..Len(Pending) : Pending[i].resp_tx = s

\* C20: with the runtime polling run() and every body ending or failing,
\* every ReqTup that is buffered or in service is eventually served (it
\* leaves only by the step that ends its service), and every caller that
\* waits on its oneshot channel eventually has its reply there unless it
\* drops the receiver first; this holds also behind a Put whose body fails
\* and behind a ReqTup whose receiver was dropped.
C20_EveryReqTupServed ==
    /\ []<>(Pending = <<>>)
    /\ [](\A s \in SlotIds : slots[s].state = "open" => InPending(s))
    /\ [][\A s \in SlotIds :
            (InPending(s) /\ ~InPending(s)') =>
                /\ ServiceEnds
                /\ Served.resp_tx = s
                /\ slots[s].state = "open" => slots'[s].state = "sent"]_vars

\* a ReqTup whose caller waits is buffered behind one whose receiver was
\* dropped, which is buffered behind a Put whose body will fail
C20_Witness ==
    /\ pc = "collect"
    /\ cur[1].req.resp.body.fails
    /\ Len(req_rx) = 2
    /\ slots[req_rx[1].resp_tx].state = "rx_dropped"
    /\ slots[req_rx[2].resp_tx].state = "open"

====
